---- MODULE Spec2Model ----
(***************************************************************************)
(* Model of joblib/_memmapping_reducer.py: the forward reducer             *)
(* (ArrayMemmapForwardReducer.__call__), the backward reducer, the         *)
(* _WeakArrayKeyMap, the end-of-batch cleanup of TemporaryResourcesManager *)
(* and the processes they talk to (resource tracker, workers).             *)
(*                                                                         *)
(* One context folder is modelled.  A file name is the pair                *)
(* <<folder, basename>> (os.path.join); a basename is the number drawn     *)
(* from uuid4 (the pid and thread id in the name do not make it unique).   *)
(***************************************************************************)
EXTENDS Integers, Sequences, FiniteSets, TLC

\* ------------------------------------------------------------------ bounds
MaxNbytes == 2      \* max_nbytes ranges over None and 1..MaxNbytes
MaxFiles == 2       \* basenames uuid4 can hand out
MaxSends == 2       \* descriptors of backing files sent in one run
MaxQueue == 2       \* capacity of the pipe to the resource tracker
MaxBatches == 2     \* calls of _unlink_temporary_resources
MaxGen == 1         \* times the identity of a collected array is reused

\* ---------------------------------------------------------------- arrays
None == [kind |-> "none"]
RawMmap == [kind |-> "mmap"]
CtxFolder == "joblib_memmapping_folder"
UserFolder == "user"

\* self._max_nbytes = None
NoneNbytes == 0 - 1

NdArray(base, nbytes, hasobject) ==
  [kind |-> "ndarray", base |-> base, nbytes |-> nbytes,
   hasobject |-> hasobject]

Memmap(filename, mode, nbytes) ==
  [kind |-> "memmap", base |-> RawMmap, nbytes |-> nbytes,
   hasobject |-> FALSE, filename |-> filename, mode |-> mode]

Join(folder_name, base) == <<folder_name, base>>

UserMemmap == Memmap(Join(UserFolder, 1), "r+", 3)

\* The arrays the coordinator holds, by identity (id()).
ArrayIds == 1..7

ArrayOf(i) ==
  CASE i = 1 -> NdArray(None, 3, FALSE)
    [] i = 2 -> NdArray(None, 1, FALSE)
    [] i = 3 -> NdArray(None, 3, TRUE)
    [] i = 4 -> UserMemmap
    [] i = 5 -> NdArray(NdArray(UserMemmap, 2, FALSE), 1, FALSE)
    [] i = 6 -> NdArray(RawMmap, 2, FALSE)
    [] i = 7 -> NdArray(NdArray(None, 3, FALSE), 1, FALSE)

Files == 1..MaxFiles
Threads == {1, 2}

VARIABLES
  max_nbytes,            \* self._max_nbytes
  unlink_on_gc_collect,  \* self._unlink_on_gc_collect
  prewarm,               \* self._prewarm
  mmap_mode,             \* self._mmap_mode
  memmaped_arrays,       \* self._memmaped_arrays._data: id -> [ref, val]
  filenames,             \* self._temporary_memmaped_filenames
  gen,                   \* gen[i]: which object currently has identity i
  uuid,                  \* basenames handed out so far
  pc, cur, basename, is_new_memmap, res,   \* one frame of __call__ per thread
  folder, fs, fmode,     \* the context folder and the files in it
  queue, registry,       \* resource tracker: its pipe and its refcounts
  inflight,              \* descriptors sent and not yet decoded, per file
  wmaps,                 \* live worker mappings, per file
  JOBLIB_MMAPS,          \* the worker's set of joblib-owned mmaps
  bres,                  \* what the backward reducer returned last
  nreg, nsent, ndump,    \* history: registers issued, sends, dumps, per file
  sentAs,                \* history: basenames sent for the live array of id i
  sinceUnlink,           \* history: files sent since the last end of batch
  failed,                \* history: a descriptor named a file that was gone
  batch                  \* history: end-of-batch calls so far

config == <<max_nbytes, unlink_on_gc_collect, prewarm, mmap_mode>>
frame == <<pc, cur, basename, is_new_memmap, res>>
reducer == <<memmaped_arrays, filenames, gen, uuid>>
disk == <<folder, fs, fmode>>
tracker == <<queue, registry>>
worker == <<inflight, wmaps, JOBLIB_MMAPS, bres>>
history == <<nreg, nsent, ndump, sentAs, sinceUnlink, failed, batch>>

\* The functions of the module that are exercised on their own.
VARIABLES
  backing,               \* codec: the np.memmap m at the top of the base chain
  view,                  \* codec: the array a, a view of m
  reduced,               \* codec: what _reduce_memmap_backed returned
  rebuilt,               \* codec: what _strided_from_memmap returned
  garbage,               \* codec: what a read outside the mapped buffer yields
  temp_folder_root,      \* TemporaryResourcesManager._temp_folder_root
  JOBLIB_TEMP_FOLDER,    \* os.environ.get('JOBLIB_TEMP_FOLDER', None)
  shm,                   \* what the process finds at SYSTEM_SHARED_MEM_FS
  pool_folder,           \* _get_temp_dir: the folder returned
  use_shared_mem,        \* _get_temp_dir: the flag returned
  prewarm_arg,           \* the prewarm argument of the reducer's constructor
  tpc,                   \* the context: "new", "registered", "ready"
  unpickled,             \* the reducer a worker rebuilt from __reduce__
  pickling,              \* what pickling the _WeakArrayKeyMap came to
  _data,                 \* a _WeakArrayKeyMap: id -> [ref, val]
  lives,                 \* lives[k]: which object has the identity k now
  weakrefs,              \* weak references the map holds on the live objects
  callbacks,             \* on_destroy callbacks that are due, per key
  hex,                   \* values (uuid4().hex) handed out so far
  latest,                \* history: the last value set for the live object
  handed,                \* history: <<object, value>> given for an object
  deferred,              \* the runtime runs weakref callbacks later
  retry_no,              \* unlink_file: the loop variable
  upc,                   \* unlink_file: where it is
  holders,               \* unlink_file: processes that still map the file
  present,               \* unlink_file: the file is there
  attempts,              \* history: calls of os.unlink
  failures,              \* history: calls that raised PermissionError
  sleeps,                \* history: calls of time.sleep(.2)
  registered,            \* history: register requests of the file, sent
  unlinked,              \* history: maybe_unlink requests of the file, sent
  _cached_temp_folders,  \* TemporaryResourcesManager: context id -> folder
  _current_context_id,   \* TemporaryResourcesManager: the current context
  atexit,                \* _cleanup callbacks registered, per context
  ran,                   \* _cleanup callbacks that have run, per context
  exiting,               \* the process is at exit
  folder_registers,      \* history: register(folder, "folder"), per context
  folder_unregisters,    \* history: unregister(folder, "folder"), per context
  dirs,                  \* the folder of a context: absent, empty, files
  stuck,                 \* contexts whose folder the OS refuses to delete
  warned,                \* history: warnings of _cleanup, per context
  escaped,               \* history: an exception left a _cleanup callback
  last,                  \* history: the last call on the manager
  verbose,               \* self.verbose of the forward reducer
  _logger,               \* multiprocessing.util._logger, by its level
  stderr,                \* log records written to stderr
  dumped                 \* arrays that have a backing file

codec == <<backing, view, reduced, rebuilt, garbage>>
resolver == <<temp_folder_root, JOBLIB_TEMP_FOLDER, shm, pool_folder,
              use_shared_mem, prewarm_arg, tpc>>
pickles == <<unpickled, pickling>>
weakmap == <<_data, lives, weakrefs, callbacks, hex, latest, handed,
             deferred>>
unlinker == <<retry_no, upc, holders, present, attempts, failures, sleeps>>
client == <<registered, unlinked>>
manager == <<_cached_temp_folders, _current_context_id, atexit, ran,
             exiting, folder_registers, folder_unregisters, dirs, stuck,
             warned, escaped, last>>
logging == <<verbose, _logger, stderr, dumped>>
extras == <<client, manager, logging>>
units == <<codec, resolver, pickles, weakmap, unlinker, extras>>
main == <<config, frame, reducer, disk, tracker, worker, history>>
vars == <<main, units>>

\* ------------------------------------------------------- pure functions
\* An array object is <<identity, generation>>; id(obj) is its first part.
Obj(i) == <<i, gen[i]>>
id(obj) == obj[1]

\* A lookup by key alone, whatever the weak reference points at.
get_raises_by_key(data, obj) == id(obj) \notin DOMAIN data

\* _WeakArrayKeyMap.get raises KeyError: the key is absent, or the stored
\* weak reference does not point at obj.
get_raises(data, obj) ==
  \/ id(obj) \notin DOMAIN data
  \/ data[id(obj)].ref # obj

\* _WeakArrayKeyMap.get, where it does not raise.
get(data, obj) == data[id(obj)].val

\* A set that keeps the value of an entry that is already there.
set_once(data, obj, value) ==
  [k \in DOMAIN data \cup {id(obj)} |->
     IF k = id(obj)
     THEN IF get_raises(data, obj) THEN [ref |-> obj, val |-> value]
          ELSE data[k]
     ELSE data[k]]

\* _WeakArrayKeyMap.set: the entry under id(obj) becomes (ref, value), with
\* the old weak reference if it points at obj and a new one otherwise.
set(data, obj, value) ==
  [k \in DOMAIN data \cup {id(obj)} |->
     IF k = id(obj) THEN [ref |-> obj, val |-> value] ELSE data[k]]

\* The weak reference callback of set: del self._data[key].
on_destroy(data, key) == [k \in DOMAIN data \ {key} |-> data[k]]

\* A walk that looks at the array itself and not at its ancestors.
_get_backing_memmap_shallow(a) ==
  IF a.base.kind = "mmap" THEN a ELSE [kind |-> "none"]

RECURSIVE _get_backing_memmap(_)
_get_backing_memmap(a) ==
  LET b == a.base IN
  IF b.kind = "none" THEN None
  ELSE IF b.kind = "mmap" THEN a
  ELSE _get_backing_memmap(b)

\* m is not None and isinstance(m, np.memmap)
IsMemmap(m) == m # None /\ m.kind = "memmap"

\* The descriptor of a view a of the memmap m.  The last argument
\* (unlink_on_gc_collect) is always False.
_reduce_memmap_backed(a, m) ==
  [func |-> "_strided_from_memmap", filename |-> m.filename,
   mode |-> m.mode, unlink_on_gc_collect |-> FALSE]

\* (loads, (dumps(a),)): the array travels inline.
Inline == [func |-> "loads"]

NoResult == [func |-> "none"]

\* The test with >= for >.
ShouldMemmapAtThreshold(a, maxnbytes) ==
  /\ ~a.hasobject
  /\ maxnbytes # NoneNbytes
  /\ a.nbytes >= maxnbytes

\* The test of line 378: dump the array to a backing file.
ShouldMemmap(a, maxnbytes) ==
  /\ ~a.hasobject
  /\ maxnbytes # NoneNbytes
  /\ a.nbytes > maxnbytes

\* No file is ever taken for new.
IsNewMemmapNever(filename, names) == FALSE

\* filename not in self._temporary_memmaped_filenames
IsNewMemmap(filename, names) == filename \notin names

\* The per-send register issued whatever unlink_on_gc_collect is.
RegistersEachSendAlways(unlink_on_gc) == TRUE

\* The per-send register is issued when unlink_on_gc_collect is set.
RegistersEachSend(unlink_on_gc) == unlink_on_gc

\* The descriptor of a backing file.
TemporaryMemmap(filename, mode, unlink_on_gc) ==
  [func |-> "load_temporary_memmap", filename |-> filename,
   mode |-> mode, unlink_on_gc_collect |-> unlink_on_gc]

\* The backward reducer with the test of JOBLIB_MMAPS turned round.
reduce_array_memmap_backward_owned(a, joblib_mmaps) ==
  LET m == _get_backing_memmap(a) IN
  IF IsMemmap(m) /\ m.filename \in joblib_mmaps
  THEN _reduce_memmap_backed(a, m)
  ELSE Inline

\* reduce_array_memmap_backward; joblib_mmaps is the worker's JOBLIB_MMAPS.
reduce_array_memmap_backward(a, joblib_mmaps) ==
  LET m == _get_backing_memmap(a) IN
  IF IsMemmap(m) /\ m.filename \notin joblib_mmaps
  THEN _reduce_memmap_backed(a, m)
  ELSE Inline

\* ------------------------------------------------------------- the codec
\* _reduce_memmap_backed and _strided_from_memmap on the layout of arrays.
\* An array is [shape, strides, start]: strides in bytes, start the place of
\* its element [0, ..., 0] in the file.  Indices count from 0.
MaxDim == 3         \* every axis of the backing memmap has 1..MaxDim items
MaxOffset == 1      \* the backing memmap starts 0..MaxOffset items in the file

\* a.itemsize
itemsize == 2

RECURSIVE Prod(_)
Prod(shape) ==
  IF shape = <<>> THEN 1 ELSE Head(shape) * Prod(Tail(shape))

\* The strides of a contiguous array of this shape and order.
ContiguousStrides(shape, order) ==
  LET n == Len(shape) IN
  [k \in 1..n |->
     IF order = "C" THEN itemsize * Prod(SubSeq(shape, k + 1, n))
     ELSE itemsize * Prod(SubSeq(shape, 1, k - 1))]

\* a.flags['C_CONTIGUOUS'] and a.flags['F_CONTIGUOUS'] as numpy computes
\* them: an axis of one item is not looked at.
C_CONTIGUOUS(a) ==
  \A k \in 1..Len(a.shape) :
    a.shape[k] = 1 \/ a.strides[k] = ContiguousStrides(a.shape, "C")[k]

F_CONTIGUOUS(a) ==
  \A k \in 1..Len(a.shape) :
    a.shape[k] = 1 \/ a.strides[k] = ContiguousStrides(a.shape, "F")[k]

\* np.memmap(filename, shape=shape, offset=offset, order=order)
make_memmap(shape, offset, order) ==
  [shape |-> shape, strides |-> ContiguousStrides(shape, order),
   start |-> offset]

\* as_strided(base, shape=shape, strides=strides): a view that starts where
\* base starts.
as_strided(base, shape, strides) ==
  [shape |-> shape, strides |-> strides, start |-> base.start]

\* a[..., first : : step, ...] with n items along axis k.
Slice(a, k, first, n, step) ==
  [shape |-> [a.shape EXCEPT ![k] = n],
   strides |-> [a.strides EXCEPT ![k] = @ * step],
   start |-> a.start + first * a.strides[k]]

\* a.T
Transpose(a) ==
  LET n == Len(a.shape) IN
  [shape |-> [k \in 1..n |-> a.shape[n + 1 - k]],
   strides |-> [k \in 1..n |-> a.strides[n + 1 - k]],
   start |-> a.start]

\* The slices of an axis of d items: <<first, n, step>>.
Slices(d) ==
  {sl \in (0..(d - 1)) \X (1..d) \X {0 - 1, 1, 2} :
     sl[1] + (sl[2] - 1) * sl[3] \in 0..(d - 1)}

RECURSIVE SliceAll(_, _, _)
SliceAll(a, sls, k) ==
  IF k > Len(sls) THEN a
  ELSE SliceAll(Slice(a, k, sls[k][1], sls[k][2], sls[k][3]), sls, k + 1)

\* The slicings of an array of this shape, one slice for each axis.
Slicings(shape) ==
  IF Len(shape) = 1 THEN {<<sl>> : sl \in Slices(shape[1])}
  ELSE Slices(shape[1]) \X Slices(shape[2])

\* The indices of an array of this shape.
Indices(shape) ==
  IF Len(shape) = 1 THEN {<<i>> : i \in 0..(shape[1] - 1)}
  ELSE (0..(shape[1] - 1)) \X (0..(shape[2] - 1))

RECURSIVE Dot(_, _)
Dot(x, y) ==
  IF x = <<>> THEN 0 ELSE Head(x) * Head(y) + Dot(Tail(x), Tail(y))

\* Where a[idx] lies in the file.
Address(a, idx) == a.start + Dot(idx, a.strides)

\* np.byte_bounds(a): the lowest byte of a and the byte after its highest.
byte_bounds(a) ==
  LET n == Len(a.shape)
      low == [k \in 1..n |->
                IF a.strides[k] < 0 THEN a.shape[k] - 1 ELSE 0]
      high == [k \in 1..n |->
                 IF a.strides[k] > 0 THEN a.shape[k] - 1 ELSE 0]
  IN <<Address(a, low), Address(a, high) + itemsize>>

\* Lines 265-288: offset, order, shape, strides and total_buffer_len of the
\* descriptor of a, a view of the memmap m whose offset in the file is
\* m.start.  No strides (None) is the empty tuple, no total_buffer_len is 0.
_reduce_memmap_backed_layout(a, m) ==
  LET contiguous == F_CONTIGUOUS(a) \/ C_CONTIGUOUS(a) IN
  [offset |-> (byte_bounds(a)[1] - byte_bounds(m)[1]) + m.start,
   order |-> IF F_CONTIGUOUS(m) THEN "F" ELSE "C",
   shape |-> a.shape,
   strides |-> IF contiguous THEN <<>> ELSE a.strides,
   total_buffer_len |->
     IF contiguous THEN 0
     ELSE (byte_bounds(a)[2] - byte_bounds(a)[1]) \div itemsize]

\* Lines 239-252: the array rebuilt from a descriptor.
_strided_from_memmap(d) ==
  IF d.strides = <<>>
  THEN make_memmap(d.shape, d.offset, d.order)
  ELSE as_strided(make_memmap(<<d.total_buffer_len>>, d.offset, d.order),
                  d.shape, d.strides)

\* The bytes that the rebuilt array has mapped.
Mapped(d) ==
  LET len == IF d.strides = <<>> THEN Prod(d.shape) ELSE d.total_buffer_len
  IN d.offset .. (d.offset + len * itemsize - 1)

\* The modes a np.memmap can be opened with.
Modes == {"r", "r+", "w+", "c"}

\* The backing memmaps, files the user opened, and the views of one of
\* them: a slicing, transposed or not.
Backings ==
  {[shape |-> shape, strides |-> ContiguousStrides(shape, order),
    start |-> off * itemsize, filename |-> Join(UserFolder, 1),
    mode |-> mode] :
     shape \in {<<n>> : n \in 1..MaxDim} \cup ((1..MaxDim) \X (1..MaxDim)),
     off \in 0..MaxOffset, order \in {"C", "F"}, mode \in Modes}

Views(m) ==
  LET whole == [shape |-> m.shape, strides |-> m.strides, start |-> m.start]
      sliced == {SliceAll(whole, sls, 1) : sls \in Slicings(m.shape)}
  IN sliced \cup {Transpose(a) : a \in sliced}

NoArray == [shape |-> <<>>, strides |-> <<>>, start |-> 0]

CodecIdle ==
  /\ backing = NoArray
  /\ view = NoArray
  /\ reduced = NoResult
  /\ rebuilt = NoArray
  /\ garbage = 0

\* The values a read of the rebuilt array outside its buffer can yield: an
\* item of the view, or something else.
Reads(a) == {Address(a, idx) : idx \in Indices(a.shape)} \cup {0 - 1}

\* The rebuilt array reads outside the buffer it has mapped.
Overruns(d) ==
  LET r == _strided_from_memmap(d) IN
  \E idx \in Indices(r.shape) :
    ~({Address(r, idx), Address(r, idx) + itemsize - 1} \subseteq Mapped(d))

\* The sender: _reduce_memmap_backed(a, m), lines 255-291.
Reduce ==
  /\ view # NoArray
  /\ reduced = NoResult
  /\ reduced' = [call |-> _reduce_memmap_backed(view, backing),
                 layout |-> _reduce_memmap_backed_layout(view, backing)]
  /\ UNCHANGED <<extras, main, backing, view, rebuilt, garbage, resolver, pickles,
                 weakmap, unlinker>>

\* The mode of the descriptor handed to make_memmap as it is.
open_mode_as_given(mode) == mode

\* Lines 235-237: if mode == 'w+': mode = 'r+'.  Both calls of make_memmap
\* (lines 241 and 248) come after it.
open_mode(mode) == IF mode = "w+" THEN "r+" ELSE mode

\* The receiver: _strided_from_memmap(*args), lines 232-252; 'w+' is opened
\* as 'r+'.
Rebuild ==
  /\ reduced # NoResult
  /\ rebuilt = NoArray
  /\ rebuilt' = [array |-> _strided_from_memmap(reduced.layout),
                 mode |-> open_mode(reduced.call.mode)]
  /\ IF Overruns(reduced.layout)
     THEN garbage' \in Reads(view)
     ELSE garbage' = garbage
  /\ UNCHANGED <<extras, main, backing, view, reduced, resolver, pickles, weakmap,
                 unlinker>>

\* ------------------------------------------------------------- initial
\* The state after construction, but for the options of the reducer.
Start ==
  /\ memmaped_arrays = <<>>
  /\ filenames = {}
  /\ gen = [i \in ArrayIds |-> 0]
  /\ uuid = 0
  /\ pc = [t \in Threads |-> "idle"]
  /\ cur = [t \in Threads |-> 1]
  /\ basename = [t \in Threads |-> 0]
  /\ is_new_memmap = [t \in Threads |-> FALSE]
  /\ res = [t \in Threads |-> NoResult]
  /\ folder = "absent"
  /\ fs = [f \in Files |-> "absent"]
  /\ fmode = [f \in Files |-> "default"]
  /\ queue = <<>>
  /\ registry = [f \in Files |-> 0]
  /\ inflight = [f \in Files |-> 0]
  /\ wmaps = [f \in Files |-> 0]
  /\ JOBLIB_MMAPS = {}
  /\ bres = NoResult
  /\ nreg = [f \in Files |-> 0]
  /\ nsent = [f \in Files |-> 0]
  /\ ndump = [f \in Files |-> 0]
  /\ sentAs = [i \in ArrayIds |-> {}]
  /\ sinceUnlink = {}
  /\ failed = FALSE
  /\ batch = 0

\* ------------------------------------------ the temp folder of a context
MaxAvail == 3       \* free space of the shared memory mount, in 1e9 bytes

SYSTEM_SHARED_MEM_FS == "/dev/shm"

\* int(2e9), in units of 1e9 bytes
SYSTEM_SHARED_MEM_FS_MIN_SIZE == 2

\* tempfile.gettempdir()
gettempdir == "tmp"

\* What the process can find at SYSTEM_SHARED_MEM_FS: whether it exists,
\* whether os.statvfs succeeds and how many bytes it reports, and whether
\* os.makedirs succeeds there.
ShmStates ==
  [exists : BOOLEAN, statvfs : BOOLEAN, available_nbytes : 0..MaxAvail,
   writable : BOOLEAN]

\* Resolution with the environment variable looked at first.
_get_temp_dir_env_first(pool_folder_name, temp_folder, environ, sh, exists) ==
  LET given == IF environ = "None" THEN temp_folder ELSE environ
      try_shm == given = "None" /\ sh.exists
      large == /\ sh.statvfs
               /\ sh.available_nbytes > SYSTEM_SHARED_MEM_FS_MIN_SIZE
      makedirs == try_shm /\ large /\ ~exists
      raised == try_shm /\ (~sh.statvfs \/ (makedirs /\ ~sh.writable))
      on_shm == try_shm /\ large /\ ~raised
  IN [pool_folder |->
        Join(IF given # "None" THEN given
             ELSE IF on_shm THEN SYSTEM_SHARED_MEM_FS ELSE gettempdir,
             pool_folder_name),
      use_shared_mem |-> on_shm,
      created |-> makedirs /\ sh.writable]

\* _get_temp_dir(pool_folder_name, temp_folder), lines 198-224, in an
\* environment: environ is JOBLIB_TEMP_FOLDER, sh the state of the shared
\* memory mount, exists whether pool_folder is already there.  "None" is
\* None.  created: os.makedirs(pool_folder) of line 213 made the folder.
_get_temp_dir(pool_folder_name, temp_folder, environ, sh, exists) ==
  LET given == IF temp_folder = "None" THEN environ ELSE temp_folder
      try_shm == given = "None" /\ sh.exists
      large == /\ sh.statvfs
               /\ sh.available_nbytes > SYSTEM_SHARED_MEM_FS_MIN_SIZE
      makedirs == try_shm /\ large /\ ~exists
      raised == try_shm /\ (~sh.statvfs \/ (makedirs /\ ~sh.writable))
      on_shm == try_shm /\ large /\ ~raised
  IN [pool_folder |->
        Join(IF given # "None" THEN given
             ELSE IF on_shm THEN SYSTEM_SHARED_MEM_FS ELSE gettempdir,
             pool_folder_name),
      use_shared_mem |-> on_shm,
      created |-> makedirs /\ sh.writable]

\* self._temp_folder.startswith(SYSTEM_SHARED_MEM_FS)
startswith(path, prefix) == path[1] = prefix

\* Lines 344-350: what __init__ leaves in self._prewarm.  The assignment of
\* line 350 comes after the if/else and overwrites what it stored.
_prewarm(arg, temp_folder) == arg

\* if self._prewarm: (line 440); "auto" is a non-empty string.
Truthy(value) == value # "False"

\* The context is registered, its folder is under the platform temp
\* directory and is not created yet, and the reducer is constructed.
ResolverIdle ==
  /\ temp_folder_root = "None"
  /\ JOBLIB_TEMP_FOLDER = "None"
  /\ shm = [exists |-> FALSE, statvfs |-> FALSE, available_nbytes |-> 0,
            writable |-> FALSE]
  /\ pool_folder = Join(gettempdir, CtxFolder)
  /\ use_shared_mem = FALSE
  /\ prewarm_arg = (IF prewarm THEN "True" ELSE "False")
  /\ tpc = "ready"

\* ------------------------------------------------------ _WeakArrayKeyMap
MaxKeys == 2        \* identities (id()) the arrays of the map can have
MaxLives == 2       \* arrays that die under one identity
MaxValues == 3      \* values that are set

Keys == 1..MaxKeys

\* The array that has the identity k now.
Live(k) == <<k, lives[k]>>

WeakMapIdle ==
  /\ _data = <<>>
  /\ lives = [k \in Keys |-> 0]
  /\ weakrefs = [k \in Keys |-> 0]
  /\ callbacks = [k \in Keys |-> 0]
  /\ hex = 0
  /\ latest = [k \in Keys |-> 0]
  /\ handed = {}
  /\ deferred = FALSE

\* ------------------------------------------------- pickling the reducer
\* _WeakArrayKeyMap.__getstate__, lines 143-144: it raises.
__getstate__(data) == "PicklingError"

\* Unpickling with the whole __dict__ of the reducer, as pickle does for an
\* object without __reduce__.
__reduce__by_dict(self) == self

\* Lines 359-370, and what pickle does with the triple on the other side:
\* ArrayMemmapForwardReducer(*args), so __init__ runs with prewarm=True and
\* makes a new map and a new set, and then the dict goes into __dict__.
__reduce__(self) ==
  [_max_nbytes |-> self._max_nbytes,
   _mmap_mode |-> self._mmap_mode,
   _unlink_on_gc_collect |-> self._unlink_on_gc_collect,
   _prewarm |-> _prewarm("True", pool_folder),
   _memmaped_arrays |-> <<>>,
   _temporary_memmaped_filenames |-> {},
   prewarm |-> self._prewarm]

\* No reducer was rebuilt yet; a rebuilt one is <<[self, copy]>>.
NoReducer == <<>>

PicklesIdle ==
  /\ unpickled = NoReducer
  /\ pickling = "none"

\* ----------------------------------------------------------- unlink_file
MaxHolders == 4     \* processes that may still map the file to unlink

NUM_RETRIES == 10

\* The last attempt never raising.
RaisesNever(n) == FALSE

\* Line 98: if retry_no == NUM_RETRIES: raise
Raises(n) == n = NUM_RETRIES

Finished == {"done", "PermissionError", "FileNotFoundError"}

UnlinkerIdle ==
  /\ retry_no = 1
  /\ upc = "idle"
  /\ holders = 0
  /\ present = FALSE
  /\ attempts = 0
  /\ failures = 0
  /\ sleeps = 0

\* No request of a client of the resource tracker is counted.
ClientIdle ==
  /\ registered = 0
  /\ unlinked = 0

\* ---------------------------------------------- TemporaryResourcesManager
MaxContexts == 2    \* context ids given to the manager
MaxCalls == 4       \* calls made on the manager after its construction

Contexts == 1..MaxContexts

\* "joblib_memmapping_folder_{}_{}_{}".format(os.getpid(), self._id,
\* context_id): the pid and the id of the manager do not change.
new_folder_name(context_id) == <<CtxFolder, context_id>>

NoCall == [op |-> "none", id |-> 0, known |-> FALSE, n |-> 0,
           raised |-> "None", value |-> <<>>]

\* No manager is there.
ManagerIdle ==
  /\ _cached_temp_folders = <<>>
  /\ _current_context_id = 0
  /\ atexit = [c \in Contexts |-> 0]
  /\ ran = [c \in Contexts |-> 0]
  /\ exiting = FALSE
  /\ folder_registers = [c \in Contexts |-> 0]
  /\ folder_unregisters = [c \in Contexts |-> 0]
  /\ dirs = [c \in Contexts |-> "absent"]
  /\ stuck = {}
  /\ warned = [c \in Contexts |-> 0]
  /\ escaped = FALSE
  /\ last = NoCall

\* ------------------------------------------------------------- logging
\* Values of the verbose argument of Parallel, which get_memmapping_reducers
\* hands to the forward reducer.
Verbosities == {0, 49, 50, 51, 100}

\* multiprocessing.util._logger: None, or a logger at one of the levels
\* of multiprocessing.util.
Loggers == {"None", "SUBDEBUG", "DEBUG", "INFO"}

\* multiprocessing.util.debug(msg): if _logger: _logger.log(DEBUG, msg).
util_debug(msg, logger) ==
  IF logger \in {"SUBDEBUG", "DEBUG"}
  THEN {[name |-> "multiprocessing", levelname |-> "DEBUG", msg |-> msg]}
  ELSE {}

\* Nothing is logged.
LoggingIdle ==
  /\ verbose = 0
  /\ _logger = "None"
  /\ stderr = {}
  /\ dumped = {}

ExtrasIdle ==
  /\ ClientIdle
  /\ ManagerIdle
  /\ LoggingIdle

\* None of the functions exercised on their own is in use.
Unused ==
  /\ CodecIdle
  /\ ResolverIdle
  /\ PicklesIdle
  /\ WeakMapIdle
  /\ UnlinkerIdle
  /\ ExtrasIdle

\* The reducer is there and is not called.
Unconfigured ==
  /\ max_nbytes = NoneNbytes
  /\ unlink_on_gc_collect = TRUE
  /\ prewarm = TRUE
  /\ mmap_mode = "r"
  /\ Start

\* prewarm=True and mmap_mode='r' are the defaults of lines 339 and 470.
Init ==
  /\ max_nbytes \in {NoneNbytes} \cup (1..MaxNbytes)
  /\ unlink_on_gc_collect \in BOOLEAN
  /\ prewarm = TRUE
  /\ mmap_mode = "r"
  /\ Start
  /\ Unused

\* ------------------------------------- ArrayMemmapForwardReducer.__call__
RECURSIVE Sum(_, _)
Sum(f, S) == IF S = {} THEN 0
             ELSE LET x == CHOOSE y \in S : TRUE IN f[x] + Sum(f, S \ {x})

\* Threads that may still draw a basename.
Drawing == {u \in Threads : pc[u] \in {"makedirs", "chmod_folder", "get"}}

\* Sends of backing files that are under way or done.
Sending ==
  {u \in Threads : /\ pc[u] # "idle"
                   /\ res[u].func \in {"none", "load_temporary_memmap"}}

filename(t) == Join(CtxFolder, basename[t])

Register(f) == <<"REGISTER", f>>
Unregister(f) == <<"UNREGISTER", f>>

\* The finalizer asking for unregister where it asks for maybe_unlink.
MaybeUnlinkByUnregister(f) == Unregister(f)

MaybeUnlink(f) == <<"MAYBE_UNLINK", f>>

\* Lines 372-379 and 459-465: the reducer is called on the array of identity
\* i and takes one of its three branches.
Call(t, i) ==
  LET a == ArrayOf(i)
      m == _get_backing_memmap(a)
  IN
  /\ pc[t] = "idle"
  /\ cur' = [cur EXCEPT ![t] = i]
  /\ IF IsMemmap(m)
     THEN /\ res' = [res EXCEPT ![t] = _reduce_memmap_backed(a, m)]
          /\ pc' = [pc EXCEPT ![t] = "return"]
     ELSE IF ShouldMemmap(a, max_nbytes)
     THEN /\ Sum(nsent, Files) + Cardinality(Sending) < MaxSends
          /\ \/ ~get_raises(memmaped_arrays, Obj(i))
             \/ uuid + Cardinality(Drawing) < MaxFiles
          /\ res' = [res EXCEPT ![t] = NoResult]
          /\ pc' = [pc EXCEPT ![t] = "makedirs"]
     ELSE /\ res' = [res EXCEPT ![t] = Inline]
          /\ pc' = [pc EXCEPT ![t] = "return"]
  /\ UNCHANGED <<units, config, basename, is_new_memmap, reducer, disk, tracker,
                 worker, history>>

\* Lines 382-387: os.makedirs; EEXIST is tolerated and skips the chmod.
Makedirs(t) ==
  /\ pc[t] = "makedirs"
  /\ IF folder = "absent"
     THEN /\ folder' = "default"
          /\ pc' = [pc EXCEPT ![t] = "chmod_folder"]
     ELSE /\ folder' = folder
          /\ pc' = [pc EXCEPT ![t] = "get"]
  /\ UNCHANGED <<units, config, cur, basename, is_new_memmap, res, reducer, fs,
                 fmode, tracker, worker, history>>

\* Line 384: os.chmod(self._temp_folder, FOLDER_PERMISSIONS).
ChmodFolder(t) ==
  /\ pc[t] = "chmod_folder"
  /\ folder' = "0700"
  /\ pc' = [pc EXCEPT ![t] = "get"]
  /\ UNCHANGED <<units, config, cur, basename, is_new_memmap, res, reducer, fs,
                 fmode, tracker, worker, history>>

\* Lines 389-397: the lookup in the dedup map, and on KeyError a new
\* basename.
Get(t) ==
  /\ pc[t] = "get"
  /\ IF get_raises(memmaped_arrays, Obj(cur[t]))
     THEN /\ uuid < MaxFiles
          /\ uuid' = uuid + 1
          /\ basename' = [basename EXCEPT ![t] = uuid + 1]
          /\ pc' = [pc EXCEPT ![t] = "set"]
     ELSE /\ uuid' = uuid
          /\ basename' =
               [basename EXCEPT ![t] = get(memmaped_arrays, Obj(cur[t]))]
          /\ pc' = [pc EXCEPT ![t] = "is_new"]
  /\ UNCHANGED <<units, config, cur, is_new_memmap, res, memmaped_arrays, filenames,
                 gen, disk, tracker, worker, history>>

\* Line 398: self._memmaped_arrays.set(a, basename).
Set(t) ==
  /\ pc[t] = "set"
  /\ memmaped_arrays' = set(memmaped_arrays, Obj(cur[t]), basename[t])
  /\ pc' = [pc EXCEPT ![t] = "is_new"]
  /\ UNCHANGED <<units, config, cur, basename, is_new_memmap, res, filenames, gen,
                 uuid, disk, tracker, worker, history>>

\* Lines 399-404: filename and is_new_memmap.
IsNew(t) ==
  /\ pc[t] = "is_new"
  /\ is_new_memmap' =
       [is_new_memmap EXCEPT ![t] = IsNewMemmap(filename(t), filenames)]
  /\ pc' = [pc EXCEPT ![t] = "add"]
  /\ UNCHANGED <<units, config, cur, basename, res, reducer, disk, tracker, worker,
                 history>>

\* Line 407: self._temporary_memmaped_filenames.add(filename).
Add(t) ==
  /\ pc[t] = "add"
  /\ filenames' = filenames \cup {filename(t)}
  /\ pc' = [pc EXCEPT ![t] = "register_send"]
  /\ UNCHANGED <<units, config, cur, basename, is_new_memmap, res, memmaped_arrays,
                 gen, uuid, disk, tracker, worker, history>>

\* Lines 409-422: the register of this send.
RegisterSend(t) ==
  /\ pc[t] = "register_send"
  /\ IF RegistersEachSend(unlink_on_gc_collect)
     THEN /\ Len(queue) < MaxQueue
          /\ queue' = Append(queue, Register(basename[t]))
          /\ nreg' = [nreg EXCEPT ![basename[t]] = @ + 1]
     ELSE UNCHANGED <<queue, nreg>>
  /\ pc' = [pc EXCEPT ![t] = "register_hold"]
  /\ UNCHANGED <<units, config, cur, basename, is_new_memmap, res, reducer, disk,
                 registry, worker, nsent, ndump, sentAs, sinceUnlink, failed,
                 batch>>

\* Lines 424-430: the register that holds a new file until the end of the
\* batch.
RegisterHold(t) ==
  /\ pc[t] = "register_hold"
  /\ IF is_new_memmap[t]
     THEN /\ Len(queue) < MaxQueue
          /\ queue' = Append(queue, Register(basename[t]))
          /\ nreg' = [nreg EXCEPT ![basename[t]] = @ + 1]
     ELSE UNCHANGED <<queue, nreg>>
  /\ pc' = [pc EXCEPT ![t] = "exists"]
  /\ UNCHANGED <<units, config, cur, basename, is_new_memmap, res, reducer, disk,
                 registry, worker, nsent, ndump, sentAs, sinceUnlink, failed,
                 batch>>

\* Line 432: os.path.exists(filename); lines 448-458 when it does.
Exists(t) ==
  /\ pc[t] = "exists"
  /\ IF fs[basename[t]] = "absent"
     THEN /\ pc' = [pc EXCEPT ![t] = "dump"]
          /\ res' = res
     ELSE /\ pc' = [pc EXCEPT ![t] = "return"]
          /\ res' = [res EXCEPT ![t] =
               TemporaryMemmap(filename(t), mmap_mode, unlink_on_gc_collect)]
  /\ UNCHANGED <<units, config, cur, basename, is_new_memmap, reducer, disk,
                 tracker, worker, history>>

\* Line 437: dump(a, filename) opens the file for writing: it exists, with
\* the default permissions if it is new, and its content is not complete.
DumpOpen(t) ==
  /\ pc[t] = "dump"
  /\ fs' = [fs EXCEPT ![basename[t]] = "partial"]
  /\ fmode' = [fmode EXCEPT ![basename[t]] =
                 IF fs[basename[t]] = "absent" THEN "default" ELSE @]
  /\ ndump' = [ndump EXCEPT ![basename[t]] = @ + 1]
  /\ pc' = [pc EXCEPT ![t] = "write"]
  /\ UNCHANGED <<units, config, cur, basename, is_new_memmap, res, reducer, folder,
                 tracker, worker, nreg, nsent, sentAs, sinceUnlink, failed,
                 batch>>

\* Line 437: dump(a, filename) has written the array.  The content is
\* complete once no other thread is still writing the same file.
DumpWrite(t) ==
  /\ pc[t] = "write"
  /\ fs' = [fs EXCEPT ![basename[t]] =
       IF \E u \in Threads \ {t} :
            pc[u] = "write" /\ basename[u] = basename[t]
       THEN "partial" ELSE "complete"]
  /\ pc' = [pc EXCEPT ![t] = "chmod"]
  /\ UNCHANGED <<units, config, cur, basename, is_new_memmap, res, reducer, folder,
                 fmode, tracker, worker, history>>

\* Line 438: os.chmod(dumped_filename, FILE_PERMISSIONS); lines 440-458.
Chmod(t) ==
  /\ pc[t] = "chmod"
  /\ fmode' = [fmode EXCEPT ![basename[t]] = "0600"]
  /\ IF prewarm
     THEN /\ pc' = [pc EXCEPT ![t] = "prewarm"]
          /\ res' = res
     ELSE /\ pc' = [pc EXCEPT ![t] = "return"]
          /\ res' = [res EXCEPT ![t] =
               TemporaryMemmap(filename(t), mmap_mode, unlink_on_gc_collect)]
  /\ UNCHANGED <<units, config, cur, basename, is_new_memmap, reducer, folder, fs,
                 tracker, worker, history>>

\* What a frame holds when an exception leaves __call__.
Raised == [func |-> "raise"]

\* Line 437: dump(a, filename) raises OSError (the disk is full) with the
\* file opened and not written to its end.  No handler is around the
\* call: the exception leaves __call__ and the file is left as it is.
DumpRaises(t) ==
  /\ pc[t] = "write"
  /\ pc' = [pc EXCEPT ![t] = "return"]
  /\ res' = [res EXCEPT ![t] = Raised]
  /\ UNCHANGED <<units, config, cur, basename, is_new_memmap, reducer, disk,
                 tracker, worker, history>>

\* Line 438: os.chmod(dumped_filename, FILE_PERMISSIONS) raises OSError
\* (permission denied).  The exception leaves __call__ and the file, which
\* is written, keeps its default permissions.
ChmodRaises(t) ==
  /\ pc[t] = "chmod"
  /\ pc' = [pc EXCEPT ![t] = "return"]
  /\ res' = [res EXCEPT ![t] = Raised]
  /\ UNCHANGED <<units, config, cur, basename, is_new_memmap, reducer, disk,
                 tracker, worker, history>>

\* Line 446: load(filename, mmap_mode=self._mmap_mode).max().
Prewarm(t) ==
  /\ pc[t] = "prewarm"
  /\ pc' = [pc EXCEPT ![t] = "return"]
  /\ res' = [res EXCEPT ![t] =
       TemporaryMemmap(filename(t), mmap_mode, unlink_on_gc_collect)]
  /\ UNCHANGED <<units, config, cur, basename, is_new_memmap, reducer, disk,
                 tracker, worker, history>>

\* Lines 376, 455-458, 465: __call__ returns; a descriptor of a backing
\* file is now on its way to a worker.
Return(t) ==
  /\ pc[t] = "return"
  /\ pc' = [pc EXCEPT ![t] = "idle"]
  /\ cur' = [cur EXCEPT ![t] = 1]
  /\ basename' = [basename EXCEPT ![t] = 0]
  /\ is_new_memmap' = [is_new_memmap EXCEPT ![t] = FALSE]
  /\ res' = [res EXCEPT ![t] = NoResult]
  /\ IF res[t].func = "load_temporary_memmap"
     THEN /\ inflight' = [inflight EXCEPT ![basename[t]] = @ + 1]
          /\ nsent' = [nsent EXCEPT ![basename[t]] = @ + 1]
          /\ sentAs' = [sentAs EXCEPT ![cur[t]] = @ \cup {basename[t]}]
          /\ sinceUnlink' = sinceUnlink \cup {basename[t]}
     ELSE UNCHANGED <<inflight, nsent, sentAs, sinceUnlink>>
  /\ UNCHANGED <<units, config, reducer, disk, tracker, wmaps, JOBLIB_MMAPS, bres,
                 nreg, ndump, failed, batch>>

\* The array of identity i is collected: the callback of its weak reference
\* runs, and a new array gets the identity.
Collect(i) ==
  /\ i \in DOMAIN memmaped_arrays
  /\ gen[i] < MaxGen
  /\ \A t \in Threads : pc[t] = "idle" \/ cur[t] # i
  /\ memmaped_arrays' = on_destroy(memmaped_arrays, i)
  /\ gen' = [gen EXCEPT ![i] = @ + 1]
  /\ sentAs' = [sentAs EXCEPT ![i] = {}]
  /\ UNCHANGED <<units, config, frame, filenames, uuid, disk, tracker, worker,
                 nreg, nsent, ndump, sinceUnlink, failed, batch>>

\* ------------------------------------------------------ resource tracker
\* unlink_file: os.unlink(filename).
unlink_file(files, f) == [files EXCEPT ![f] = "absent"]

\* The tracker takes the next request from its pipe.  register counts up;
\* maybe_unlink counts down and calls the cleanup function at zero; a
\* maybe_unlink of a name that is not registered does nothing.
Process ==
  /\ queue # <<>>
  /\ LET cmd == Head(queue)[1]
         f == Head(queue)[2]
     IN
     /\ queue' = Tail(queue)
     /\ IF cmd = "REGISTER"
        THEN /\ registry' = [registry EXCEPT ![f] = @ + 1]
             /\ UNCHANGED <<fs, fmode>>
        ELSE IF registry[f] = 0
        THEN UNCHANGED <<registry, fs, fmode>>
        ELSE /\ registry' = [registry EXCEPT ![f] = @ - 1]
             /\ IF registry[f] = 1
                THEN /\ fs' = unlink_file(fs, f)
                     /\ fmode' = [fmode EXCEPT ![f] = "default"]
                ELSE UNCHANGED <<fs, fmode>>
  /\ UNCHANGED <<units, config, frame, reducer, folder, worker, history>>

\* ---------------------------------------------------------------- worker
\* load_temporary_memmap: the worker maps the file of a descriptor, lists
\* it in JOBLIB_MMAPS and, with unlink_on_gc_collect, adds the finalizer.
\* A descriptor of a file that is gone fails to load.
Decode(f) ==
  /\ inflight[f] > 0
  /\ inflight' = [inflight EXCEPT ![f] = @ - 1]
  /\ IF fs[f] # "absent"
     THEN /\ wmaps' = [wmaps EXCEPT ![f] = @ + 1]
          /\ JOBLIB_MMAPS' = JOBLIB_MMAPS \cup {Join(CtxFolder, f)}
          /\ failed' = failed
     ELSE /\ failed' = TRUE
          /\ UNCHANGED <<wmaps, JOBLIB_MMAPS>>
  /\ UNCHANGED <<units, config, frame, reducer, disk, tracker, bres, nreg, nsent,
                 ndump, sentAs, sinceUnlink, batch>>

\* The worker drops a mapping; its finalizer (_log_and_unlink) sends
\* maybe_unlink when the mapping was made with unlink_on_gc_collect.
Finalize(f) ==
  /\ wmaps[f] > 0
  /\ wmaps' = [wmaps EXCEPT ![f] = @ - 1]
  /\ IF unlink_on_gc_collect
     THEN /\ Len(queue) < MaxQueue
          /\ queue' = Append(queue, MaybeUnlink(f))
     ELSE queue' = queue
  /\ UNCHANGED <<units, config, frame, reducer, disk, registry, inflight,
                 JOBLIB_MMAPS, bres, history>>

\* The arrays a worker can send back: a new array, the memmap of a backing
\* file it has mapped and a view of it, a memmap it opened itself and a
\* view of it.
WorkerArrays ==
  {NdArray(None, 1, FALSE), UserMemmap, NdArray(UserMemmap, 1, FALSE)}
  \cup {Memmap(Join(CtxFolder, f), mmap_mode, 3) : f \in {g \in Files : wmaps[g] > 0}}
  \cup {NdArray(Memmap(Join(CtxFolder, f), mmap_mode, 3), 1, FALSE) :
          f \in {g \in Files : wmaps[g] > 0}}

Backward(a) ==
  /\ bres' = [array |-> a,
              result |-> reduce_array_memmap_backward(a, JOBLIB_MMAPS)]
  /\ UNCHANGED <<units, config, frame, reducer, disk, tracker, inflight, wmaps,
                 JOBLIB_MMAPS, history>>

\* ------------------ TemporaryResourcesManager._unlink_temporary_resources
RECURSIVE MaybeUnlinkAll(_)
MaybeUnlinkAll(S) ==
  IF S = {} THEN <<>>
  ELSE LET f == CHOOSE g \in S : \A h \in S : g <= h
       IN <<MaybeUnlink(f)>> \o MaybeUnlinkAll(S \ {f})

\* os.listdir(temp_folder)
listdir == {f \in Files : fs[f] # "absent"}

\* Lines 606-614, called at the end of a batch: maybe_unlink of every file
\* of the folder, then the folder is deleted if it is empty.
UnlinkTemporaryResources ==
  /\ \A t \in Threads : pc[t] = "idle"
  /\ batch < MaxBatches
  /\ batch' = batch + 1
  /\ sinceUnlink' = {}
  /\ IF folder # "absent"
     THEN /\ Len(queue) + Cardinality(listdir) <= MaxQueue
          /\ queue' = queue \o MaybeUnlinkAll(listdir)
          /\ folder' = IF listdir = {} THEN "absent" ELSE folder
     ELSE UNCHANGED <<queue, folder>>
  /\ UNCHANGED <<units, config, frame, reducer, fs, fmode, registry, worker, nreg,
                 nsent, ndump, sentAs, failed>>

\* --------------------------------------------------------- specifications
Step(t) ==
  \/ \E i \in ArrayIds : Call(t, i)
  \/ Makedirs(t)
  \/ ChmodFolder(t)
  \/ Get(t)
  \/ Set(t)
  \/ IsNew(t)
  \/ Add(t)
  \/ RegisterSend(t)
  \/ RegisterHold(t)
  \/ Exists(t)
  \/ DumpOpen(t)
  \/ DumpWrite(t)
  \/ Chmod(t)
  \/ Prewarm(t)
  \/ Return(t)

\* One coordinator thread, the tracker and the workers.
Next ==
  \/ Step(1)
  \/ \E i \in ArrayIds : Collect(i)
  \/ Process
  \/ \E f \in Files : Decode(f)
  \/ \E f \in Files : Finalize(f)
  \/ UnlinkTemporaryResources

Spec == Init /\ [][Next]_vars

\* Two coordinator threads share one reducer; the tracker runs beside them.
InitMT ==
  /\ max_nbytes \in {NoneNbytes} \cup (1..MaxNbytes)
  /\ unlink_on_gc_collect \in BOOLEAN
  /\ prewarm \in BOOLEAN
  /\ mmap_mode = "r"
  /\ Start
  /\ Unused

NextMT ==
  \/ \E t \in Threads : Step(t)
  \/ Process

SpecMT == InitMT /\ [][NextMT]_vars

\* One coordinator thread sends arrays to a worker, which maps them and
\* sends arrays back.
NextW ==
  \/ Step(1)
  \/ Process
  \/ \E f \in Files : Decode(f)
  \/ \E f \in Files : Finalize(f)
  \/ \E a \in WorkerArrays : Backward(a)

SpecW == Init /\ [][NextW]_vars

\* One coordinator thread and the tracker; writing a backing file or
\* changing its permissions can fail.
NextFail ==
  \/ Step(1)
  \/ DumpRaises(1)
  \/ ChmodRaises(1)
  \/ Process

SpecFail == Init /\ [][NextFail]_vars

\* A view of a memmap the user opened is reduced and rebuilt.
InitCodec ==
  /\ Unconfigured
  /\ ExtrasIdle
  /\ ResolverIdle
  /\ PicklesIdle
  /\ WeakMapIdle
  /\ UnlinkerIdle
  /\ backing \in Backings
  /\ view \in Views(backing)
  /\ reduced = NoResult
  /\ rebuilt = NoArray
  /\ garbage = 0

NextCodec ==
  \/ Reduce
  \/ Rebuild

SpecCodec == InitCodec /\ [][NextCodec]_vars

\* Lines 532-556: TemporaryResourcesManager.register_new_context resolves
\* the folder of a new context.  (The registration of the folder with the
\* tracker, line 578, is not followed here: the tracker of the model counts
\* files.)
register_new_context ==
  /\ tpc = "new"
  /\ LET got == _get_temp_dir(CtxFolder, temp_folder_root,
                              JOBLIB_TEMP_FOLDER, shm, folder # "absent")
     IN /\ pool_folder' = got.pool_folder
        /\ use_shared_mem' = got.use_shared_mem
        /\ folder' = IF got.created THEN "default" ELSE folder
  /\ tpc' = "registered"
  /\ UNCHANGED <<config, frame, reducer, fs, fmode, tracker, worker, history,
                 codec, temp_folder_root, JOBLIB_TEMP_FOLDER, shm,
                 prewarm_arg, pickles, weakmap, unlinker, extras>>

\* Lines 338-353: ArrayMemmapForwardReducer.__init__ with prewarm_arg.
Construct ==
  /\ tpc = "registered"
  /\ prewarm' = Truthy(_prewarm(prewarm_arg, pool_folder))
  /\ tpc' = "ready"
  /\ UNCHANGED <<max_nbytes, unlink_on_gc_collect, mmap_mode, frame, reducer,
                 disk, tracker, worker, history, codec, temp_folder_root,
                 JOBLIB_TEMP_FOLDER, shm, pool_folder, use_shared_mem,
                 prewarm_arg, pickles, weakmap, unlinker, extras>>

\* A context is registered, a reducer is constructed for it and called.
InitTemp ==
  /\ max_nbytes = 1
  /\ unlink_on_gc_collect = TRUE
  /\ prewarm = FALSE
  /\ mmap_mode = "r"
  /\ Start
  /\ CodecIdle
  /\ PicklesIdle
  /\ WeakMapIdle
  /\ UnlinkerIdle
  /\ ExtrasIdle
  /\ temp_folder_root \in {"None", "hint"}
  /\ JOBLIB_TEMP_FOLDER \in {"None", "env"}
  /\ shm \in ShmStates
  /\ pool_folder = Join("None", CtxFolder)
  /\ use_shared_mem = FALSE
  /\ prewarm_arg \in {"True", "False", "auto"}
  /\ tpc = "new"

\* The reducer as the coordinator holds it.
Self ==
  [_max_nbytes |-> max_nbytes,
   _mmap_mode |-> mmap_mode,
   _unlink_on_gc_collect |-> unlink_on_gc_collect,
   _prewarm |-> _prewarm(prewarm_arg, pool_folder),
   _memmaped_arrays |-> memmaped_arrays,
   _temporary_memmaped_filenames |-> filenames]

\* The coordinator, between two calls, pickles the reducer for a worker,
\* which rebuilds it.
PickleReducer ==
  /\ tpc = "ready"
  /\ \A t \in Threads : pc[t] = "idle"
  /\ unpickled' = <<[self |-> Self, copy |-> __reduce__(Self)]>>
  /\ UNCHANGED <<extras, main, codec, resolver, pickling, weakmap, unlinker>>

\* The dedup map itself is pickled.
PickleMap ==
  /\ tpc = "ready"
  /\ \A t \in Threads : pc[t] = "idle"
  /\ pickling' = __getstate__(memmaped_arrays)
  /\ UNCHANGED <<extras, main, codec, resolver, unpickled, weakmap, unlinker>>

NextTemp ==
  \/ register_new_context
  \/ Construct
  \/ tpc = "ready" /\ Step(1)
  \/ Process
  \/ PickleReducer
  \/ PickleMap

SpecTemp == InitTemp /\ [][NextTemp]_vars

\* Lines 126-141: set(obj, value) with a new value.  A weak reference with
\* the callback is made when the entry is missing or is not obj's.
Store(k) ==
  /\ hex < MaxValues
  /\ hex' = hex + 1
  /\ _data' = set(_data, Live(k), hex + 1)
  /\ weakrefs' = [weakrefs EXCEPT ![k] =
                    IF get_raises(_data, Live(k)) THEN @ + 1 ELSE @]
  /\ latest' = [latest EXCEPT ![k] = hex + 1]
  /\ handed' = handed \cup {<<Live(k), hex + 1>>}
  /\ UNCHANGED <<extras, main, codec, resolver, pickles, unlinker, lives, callbacks,
                 deferred>>

\* Lines 389-398: the basename of an array, from the map or new.
Basename(k) ==
  /\ IF get_raises(_data, Live(k))
     THEN /\ hex < MaxValues
          /\ hex' = hex + 1
          /\ _data' = set(_data, Live(k), hex + 1)
          /\ weakrefs' = [weakrefs EXCEPT ![k] = @ + 1]
          /\ latest' = [latest EXCEPT ![k] = hex + 1]
          /\ handed' = handed \cup {<<Live(k), hex + 1>>}
     ELSE /\ handed' = handed \cup {<<Live(k), get(_data, Live(k))>>}
          /\ UNCHANGED <<hex, _data, weakrefs, latest>>
  /\ UNCHANGED <<extras, main, codec, resolver, pickles, unlinker, lives, callbacks,
                 deferred>>

\* The array of identity k is collected and a new array gets the identity.
\* The callbacks of its weak references run now, or are due later when the
\* runtime defers them.
Destroy(k) ==
  /\ lives[k] < MaxLives
  /\ lives' = [lives EXCEPT ![k] = @ + 1]
  /\ weakrefs' = [weakrefs EXCEPT ![k] = 0]
  /\ latest' = [latest EXCEPT ![k] = 0]
  /\ IF deferred
     THEN /\ callbacks' = [callbacks EXCEPT ![k] = @ + weakrefs[k]]
          /\ _data' = _data
     ELSE /\ callbacks' = callbacks
          /\ _data' = IF weakrefs[k] > 0 THEN on_destroy(_data, k) ELSE _data
  /\ UNCHANGED <<extras, main, codec, resolver, pickles, unlinker, hex, handed,
                 deferred>>

\* Lines 138-139: a callback that was due runs.
Callback(k) ==
  /\ callbacks[k] > 0
  /\ callbacks' = [callbacks EXCEPT ![k] = @ - 1]
  /\ _data' = on_destroy(_data, k)
  /\ UNCHANGED <<extras, main, codec, resolver, pickles, unlinker, lives, weakrefs,
                 hex, latest, handed, deferred>>

\* A _WeakArrayKeyMap on its own, in a runtime that runs the callbacks at
\* the destruction or later.
InitMap ==
  /\ Unconfigured
  /\ ExtrasIdle
  /\ CodecIdle
  /\ ResolverIdle
  /\ PicklesIdle
  /\ UnlinkerIdle
  /\ _data = <<>>
  /\ lives = [k \in Keys |-> 0]
  /\ weakrefs = [k \in Keys |-> 0]
  /\ callbacks = [k \in Keys |-> 0]
  /\ hex = 0
  /\ latest = [k \in Keys |-> 0]
  /\ handed = {}
  /\ deferred \in BOOLEAN

NextMap ==
  \/ \E k \in Keys : Store(k)
  \/ \E k \in Keys : Basename(k)
  \/ \E k \in Keys : Destroy(k)
  \/ \E k \in Keys : Callback(k)

SpecMap == InitMap /\ [][NextMap]_vars

\* Lines 89-99: one turn of the loop.  os.unlink raises PermissionError
\* while a process maps the file, and FileNotFoundError, which is not
\* caught, when the file is not there.
os_unlink ==
  /\ upc = "unlink"
  /\ attempts' = attempts + 1
  /\ IF ~present
     THEN /\ upc' = "FileNotFoundError"
          /\ UNCHANGED <<present, failures>>
     ELSE IF holders > 0
     THEN /\ failures' = failures + 1
          /\ upc' = IF Raises(retry_no) THEN "PermissionError" ELSE "sleep"
          /\ present' = present
     ELSE /\ present' = FALSE
          /\ upc' = "done"
          /\ failures' = failures
  /\ UNCHANGED <<extras, main, codec, resolver, pickles, weakmap, retry_no, holders,
                 sleeps>>

\* Line 101, and the next turn of the loop or its end.
sleep ==
  /\ upc = "sleep"
  /\ sleeps' = sleeps + 1
  /\ retry_no' = retry_no + 1
  /\ upc' = IF retry_no + 1 > NUM_RETRIES THEN "done" ELSE "unlink"
  /\ UNCHANGED <<extras, main, codec, resolver, pickles, weakmap, holders, present,
                 attempts, failures>>

\* A process drops its mapping of the file.
Release ==
  /\ holders > 0
  /\ holders' = holders - 1
  /\ UNCHANGED <<extras, main, codec, resolver, pickles, weakmap, retry_no, upc,
                 present, attempts, failures, sleeps>>

\* unlink_file is called on a file that some processes may still map.
InitUnlink ==
  /\ Unconfigured
  /\ ExtrasIdle
  /\ CodecIdle
  /\ ResolverIdle
  /\ PicklesIdle
  /\ WeakMapIdle
  /\ retry_no = 1
  /\ upc = "unlink"
  /\ holders \in 0..MaxHolders
  /\ present \in BOOLEAN
  /\ attempts = 0
  /\ failures = 0
  /\ sleeps = 0

NextUnlink ==
  \/ os_unlink
  \/ sleep
  \/ Release

\* The function runs on: nothing keeps it from its next step.
SpecUnlink ==
  InitUnlink /\ [][NextUnlink]_vars /\ WF_vars(os_unlink) /\ WF_vars(sleep)

\* ------------------------------------ the resource tracker and one file
MaxRequests == 2    \* register requests sent for the file

\* resource_tracker.register(filename, "file"), for the file of basename 1.
register ==
  /\ registered < MaxRequests
  /\ Len(queue) < MaxQueue
  /\ queue' = Append(queue, Register(1))
  /\ registered' = registered + 1
  /\ UNCHANGED <<config, frame, reducer, disk, registry, worker, history,
                 codec, resolver, pickles, weakmap, unlinker, unlinked,
                 manager, logging>>

\* _resource_tracker.maybe_unlink(filename, "file"), sent by a holder of a
\* reference that a register counted.
maybe_unlink ==
  /\ unlinked < registered
  /\ Len(queue) < MaxQueue
  /\ queue' = Append(queue, MaybeUnlink(1))
  /\ unlinked' = unlinked + 1
  /\ UNCHANGED <<config, frame, reducer, disk, registry, worker, history,
                 codec, resolver, pickles, weakmap, unlinker, registered,
                 manager, logging>>

\* The tracker, which is single-threaded, takes the next request when it
\* is not inside a cleanup function.  register counts up; unregister
\* counts down; maybe_unlink counts down and at zero calls the cleanup
\* function of files, unlink_file, whose error it turns into a warning.
Serve ==
  /\ upc \in {"idle"} \cup Finished
  /\ queue # <<>>
  /\ LET cmd == Head(queue)[1]
         f == Head(queue)[2]
     IN
     /\ queue' = Tail(queue)
     /\ IF cmd = "REGISTER"
        THEN /\ registry' = [registry EXCEPT ![f] = @ + 1]
             /\ UNCHANGED <<retry_no, upc, attempts, failures, sleeps>>
        ELSE IF registry[f] = 0
        THEN UNCHANGED <<registry, retry_no, upc, attempts, failures, sleeps>>
        ELSE /\ registry' = [registry EXCEPT ![f] = @ - 1]
             /\ IF cmd = "MAYBE_UNLINK" /\ registry[f] = 1
                THEN /\ upc' = "unlink"
                     /\ retry_no' = 1
                     /\ attempts' = 0
                     /\ failures' = 0
                     /\ sleeps' = 0
                ELSE UNCHANGED <<retry_no, upc, attempts, failures, sleeps>>
  /\ UNCHANGED <<config, frame, reducer, disk, worker, history, codec,
                 resolver, pickles, weakmap, holders, present, client,
                 manager, logging>>

\* The file of basename 1 may be on disk and mapped by some processes;
\* requests for it are sent to the tracker.
InitTracker ==
  /\ Unconfigured
  /\ ExtrasIdle
  /\ CodecIdle
  /\ ResolverIdle
  /\ PicklesIdle
  /\ WeakMapIdle
  /\ retry_no = 1
  /\ upc = "idle"
  /\ present \in BOOLEAN
  /\ holders \in IF present THEN 0..MaxHolders ELSE {0}
  /\ attempts = 0
  /\ failures = 0
  /\ sleeps = 0

NextTracker ==
  \/ register
  \/ maybe_unlink
  \/ Serve
  \/ os_unlink
  \/ sleep
  \/ Release

SpecTracker == InitTracker /\ [][NextTracker]_vars

\* ---------------------------------- the contexts of a manager, and exit
\* The test of line 536 never finding the context.
IsRegisteredNever(cached, context_id) == FALSE

\* Line 536: context_id in self._cached_temp_folders
IsRegistered(cached, context_id) == context_id \in DOMAIN cached

\* Line 592 asking for an empty folder.
allow_non_empty_never == FALSE

\* Line 592: delete_folder(pool_subfolder, allow_non_empty=True)
allow_non_empty_at_exit == TRUE

\* Line 594: except OSError
except_OSError(err) == err = "OSError"

\* delete_folder(folder_path, allow_non_empty): nothing to do when the
\* folder is not there; OSError when it holds files and allow_non_empty
\* is false, or when the OS refuses; else the folder and what it holds
\* are removed.
delete_folder(dir, allow_non_empty, refused) ==
  IF dir = "absent" THEN [dir |-> dir, raised |-> "None"]
  ELSE IF (dir = "files" /\ ~allow_non_empty) \/ refused
  THEN [dir |-> dir, raised |-> "OSError"]
  ELSE [dir |-> "absent", raised |-> "None"]

\* Lines 532-556, as a step of the action that calls it.
Registration(context_id) ==
  IF IsRegistered(_cached_temp_folders, context_id)
  THEN UNCHANGED <<_cached_temp_folders, atexit, folder_registers, dirs>>
  ELSE LET got == _get_temp_dir(new_folder_name(context_id),
                                temp_folder_root, JOBLIB_TEMP_FOLDER, shm,
                                dirs[context_id] # "absent")
       IN /\ dirs' = [dirs EXCEPT ![context_id] =
                        IF got.created THEN "empty" ELSE @]
          /\ folder_registers' = [folder_registers EXCEPT ![context_id] = @ + 1]
          /\ atexit' = [atexit EXCEPT ![context_id] = @ + 1]
          /\ _cached_temp_folders' =
               [k \in DOMAIN _cached_temp_folders \cup {context_id} |->
                  IF k = context_id THEN got.pool_folder
                  ELSE _cached_temp_folders[k]]

\* A call on the manager, with the exception it raised and the value it
\* returned.
Called(op, context_id, raised, value) ==
  /\ ~exiting
  /\ last.n < MaxCalls
  /\ last' = [op |-> op, id |-> context_id,
              known |-> context_id \in DOMAIN _cached_temp_folders,
              n |-> last.n + 1, raised |-> raised, value |-> value]

\* Lines 528-530.
SetCurrentContext(context_id) ==
  /\ Called("set_current_context", context_id, "None", <<>>)
  /\ _current_context_id' = context_id
  /\ Registration(context_id)
  /\ UNCHANGED <<main, codec, resolver, pickles, weakmap, unlinker, client,
                 logging,
                 ran, exiting, folder_unregisters, stuck, warned, escaped>>

\* Lines 532-556, called on its own.
RegisterNewContext(context_id) ==
  /\ Called("register_new_context", context_id, "None", <<>>)
  /\ Registration(context_id)
  /\ UNCHANGED <<main, codec, resolver, pickles, weakmap, unlinker, client,
                 logging,
                 _current_context_id, ran, exiting, folder_unregisters,
                 stuck, warned, escaped>>

\* Lines 562-567 with a context id: dict.pop raises KeyError for a
\* context that is not registered.
UnregisterContext(context_id) ==
  /\ Called("_unregister_context", context_id,
            IF context_id \in DOMAIN _cached_temp_folders
            THEN "None" ELSE "KeyError", <<>>)
  /\ _cached_temp_folders' =
       [k \in DOMAIN _cached_temp_folders \ {context_id} |->
          _cached_temp_folders[k]]
  /\ UNCHANGED <<main, codec, resolver, pickles, weakmap, unlinker, client,
                 logging,
                 _current_context_id, atexit, ran, exiting, folder_registers,
                 folder_unregisters, dirs, stuck, warned, escaped>>

\* Lines 562-565, context_id=None: every context is popped.
UnregisterAllContexts ==
  /\ Called("_unregister_context", 0, "None", <<>>)
  /\ _cached_temp_folders' = <<>>
  /\ UNCHANGED <<main, codec, resolver, pickles, weakmap, unlinker, client,
                 logging,
                 _current_context_id, atexit, ran, exiting, folder_registers,
                 folder_unregisters, dirs, stuck, warned, escaped>>

\* Lines 558-560.
ResolveTempFolderName ==
  /\ Called("resolve_temp_folder_name", _current_context_id,
            IF _current_context_id \in DOMAIN _cached_temp_folders
            THEN "None" ELSE "KeyError",
            IF _current_context_id \in DOMAIN _cached_temp_folders
            THEN _cached_temp_folders[_current_context_id] ELSE <<>>)
  /\ UNCHANGED <<main, codec, resolver, pickles, weakmap, unlinker, client,
                 logging,
                 _cached_temp_folders, _current_context_id, atexit, ran,
                 exiting, folder_registers, folder_unregisters, dirs, stuck,
                 warned, escaped>>

\* A reducer of the current context dumps an array: the folder is made
\* and holds a file (lines 382-387 and 437 of __call__).
UseFolder ==
  /\ ~exiting
  /\ _current_context_id \in DOMAIN _cached_temp_folders
  /\ dirs[_current_context_id] # "files"
  /\ dirs' = [dirs EXCEPT ![_current_context_id] = "files"]
  /\ UNCHANGED <<main, codec, resolver, pickles, weakmap, unlinker, client,
                 logging,
                 _cached_temp_folders, _current_context_id, atexit, ran,
                 exiting, folder_registers, folder_unregisters, stuck,
                 warned, escaped, last>>

\* The process exits with no teardown: atexit runs its callbacks.
Exit ==
  /\ ~exiting
  /\ exiting' = TRUE
  /\ UNCHANGED <<main, codec, resolver, pickles, weakmap, unlinker, client,
                 logging,
                 _cached_temp_folders, _current_context_id, atexit, ran,
                 folder_registers, folder_unregisters, dirs, stuck, warned,
                 escaped, last>>

\* Lines 580-596: one _cleanup callback runs, for the folder of its
\* closure.
_cleanup(context_id) ==
  /\ exiting
  /\ ran[context_id] < atexit[context_id]
  /\ ran' = [ran EXCEPT ![context_id] = @ + 1]
  /\ LET d == delete_folder(dirs[context_id], allow_non_empty_at_exit,
                            context_id \in stuck)
     IN /\ dirs' = [dirs EXCEPT ![context_id] = d.dir]
        /\ IF d.raised = "None"
           THEN /\ folder_unregisters' =
                     [folder_unregisters EXCEPT ![context_id] = @ + 1]
                /\ UNCHANGED <<warned, escaped>>
           ELSE IF except_OSError(d.raised)
           THEN /\ warned' = [warned EXCEPT ![context_id] = @ + 1]
                /\ UNCHANGED <<folder_unregisters, escaped>>
           ELSE /\ escaped' = TRUE
                /\ UNCHANGED <<folder_unregisters, warned>>
  /\ UNCHANGED <<main, codec, resolver, pickles, weakmap, unlinker, client,
                 logging,
                 _cached_temp_folders, _current_context_id, atexit, exiting,
                 folder_registers, stuck, last>>

\* Lines 514-526: the manager after TemporaryResourcesManager(
\* temp_folder_root, context_id).
InitManager ==
  /\ Unconfigured
  /\ CodecIdle
  /\ PicklesIdle
  /\ WeakMapIdle
  /\ UnlinkerIdle
  /\ ClientIdle
  /\ LoggingIdle
  /\ temp_folder_root \in {"None", "hint"}
  /\ JOBLIB_TEMP_FOLDER = "None"
  /\ shm \in {sh \in ShmStates :
                /\ sh.exists = sh.statvfs
                /\ sh.statvfs = sh.writable
                /\ sh.available_nbytes = (IF sh.exists THEN MaxAvail ELSE 0)}
  /\ pool_folder = Join(gettempdir, CtxFolder)
  /\ use_shared_mem = FALSE
  /\ prewarm_arg = "True"
  /\ tpc = "ready"
  /\ \E context_id \in Contexts :
       LET got == _get_temp_dir(new_folder_name(context_id),
                                temp_folder_root, JOBLIB_TEMP_FOLDER, shm,
                                FALSE)
       IN /\ _cached_temp_folders = [k \in {context_id} |-> got.pool_folder]
          /\ _current_context_id = context_id
          /\ atexit = [c \in Contexts |-> IF c = context_id THEN 1 ELSE 0]
          /\ folder_registers =
               [c \in Contexts |-> IF c = context_id THEN 1 ELSE 0]
          /\ dirs = [c \in Contexts |->
                       IF c = context_id /\ got.created THEN "empty"
                       ELSE "absent"]
  /\ ran = [c \in Contexts |-> 0]
  /\ exiting = FALSE
  /\ folder_unregisters = [c \in Contexts |-> 0]
  /\ stuck \in SUBSET Contexts
  /\ warned = [c \in Contexts |-> 0]
  /\ escaped = FALSE
  /\ last = NoCall

NextManager ==
  \/ \E context_id \in Contexts : SetCurrentContext(context_id)
  \/ \E context_id \in Contexts : RegisterNewContext(context_id)
  \/ \E context_id \in Contexts : UnregisterContext(context_id)
  \/ UnregisterAllContexts
  \/ ResolveTempFolderName
  \/ UseFolder
  \/ Exit
  \/ \E context_id \in Contexts : _cleanup(context_id)

SpecManager == InitManager /\ [][NextManager]_vars

\* ------------------------------------------- what a reduction logs
\* Lines 263, 433-436, 449-452 and 462-464: a call of the reducer on the
\* array of identity i, for what it logs.  Every message goes through
\* util.debug, and self.verbose is not read.
LoggedCall(i) ==
  LET a == ArrayOf(i)
      m == _get_backing_memmap(a)
      msg == IF IsMemmap(m) THEN "[MEMMAP REDUCE] reducing a memmap-backed array"
             ELSE IF ~ShouldMemmap(a, max_nbytes)
             THEN "[ARRAY DUMP] Pickling array (NO MEMMAPPING)"
             ELSE IF i \in dumped
             THEN "[ARRAY DUMP] Pickling known array"
             ELSE "[ARRAY DUMP] Pickling new array"
  IN
  /\ stderr' = stderr \cup util_debug(msg, _logger)
  /\ dumped' = IF ~IsMemmap(m) /\ ShouldMemmap(a, max_nbytes)
               THEN dumped \cup {i} ELSE dumped
  /\ UNCHANGED <<main, codec, resolver, pickles, weakmap, unlinker, client,
                 manager, verbose, _logger>>

\* A reducer built with verbose, in a process whose multiprocessing
\* logger is set or not.
InitLog ==
  /\ max_nbytes \in {NoneNbytes} \cup (1..MaxNbytes)
  /\ unlink_on_gc_collect \in BOOLEAN
  /\ prewarm = TRUE
  /\ mmap_mode = "r"
  /\ Start
  /\ CodecIdle
  /\ ResolverIdle
  /\ PicklesIdle
  /\ WeakMapIdle
  /\ UnlinkerIdle
  /\ ClientIdle
  /\ ManagerIdle
  /\ verbose \in Verbosities
  /\ _logger \in Loggers
  /\ stderr = {}
  /\ dumped = {}

NextLog == \E i \in ArrayIds : LoggedCall(i)

SpecLog == InitLog /\ [][NextLog]_vars

\* ================================================================ claims
\* The array is a np.memmap or has one among its ancestors.
RECURSIVE ViewOfMemmap(_)
ViewOfMemmap(a) ==
  IF a.kind = "memmap" THEN TRUE
  ELSE IF a.base.kind \in {"none", "mmap"} THEN FALSE
  ELSE ViewOfMemmap(a.base)

\* The array of identity i is backed by a np.memmap.
Backed(i) == ViewOfMemmap(ArrayOf(i))

\* The frame of thread t is on the path that dumps to a backing file.
OnBackingPath(t) ==
  pc[t] \notin {"idle", "return"} \/ res[t].func = "load_temporary_memmap"

\* Register requests for f still in the pipe.
PendingRegisters(f) ==
  Cardinality({k \in 1..Len(queue) : queue[k] = Register(f)})

\* C1: for an array that is not backed by a np.memmap, the reducer takes
\* the backing-file path (and returns its descriptor) exactly when the dtype
\* has no objects, max_nbytes is not None and nbytes > max_nbytes; in every
\* other case, nbytes = max_nbytes and max_nbytes = None among them, it
\* returns the inline pickle.
C1_ForwardChoice ==
  \A t \in Threads :
    (pc[t] # "idle" /\ ~Backed(cur[t])) =>
      LET a == ArrayOf(cur[t]) IN
      IF ~a.hasobject /\ max_nbytes # NoneNbytes /\ a.nbytes > max_nbytes
      THEN /\ OnBackingPath(t)
           /\ pc[t] = "return" =>
                res[t].filename = Join(CtxFolder, basename[t])
      ELSE pc[t] = "return" /\ res[t] = Inline

\* C1 witness: an array of exactly max_nbytes bytes was reduced inline.
C1_Witness ==
  \E t \in Threads :
    /\ pc[t] = "return"
    /\ ~Backed(cur[t])
    /\ ~ArrayOf(cur[t]).hasobject
    /\ ArrayOf(cur[t]).nbytes = max_nbytes
    /\ res[t] = Inline

\* C2: every step of a reduction of an array backed by a np.memmap, at any
\* depth of its base chain, leaves the files, the folder, the tracker's
\* pipe, the registers issued, the dedup map and the set of emitted
\* filenames as they are; the call goes straight to its return, and what it
\* returns is a descriptor of the backing memmap's file.
C2_BackedFrame ==
  [][\A t \in Threads :
       \/ pc'[t] = pc[t]
       \/ ~Backed(IF pc[t] = "idle" THEN cur'[t] ELSE cur[t])
       \/ /\ UNCHANGED <<disk, queue, nreg, memmaped_arrays, filenames,
                         inflight, uuid>>
          /\ pc[t] = "idle" =>
               /\ pc'[t] = "return"
               /\ res'[t].func = "_strided_from_memmap"
               /\ res'[t].filename = UserMemmap.filename
          /\ pc[t] # "idle" => pc[t] = "return" /\ pc'[t] = "idle"]_vars

\* C2 witness: a view two levels above the memmap, smaller than max_nbytes,
\* is about to be returned as a descriptor while a backing file exists.
C2_Witness ==
  \E t \in Threads :
    /\ pc[t] = "return"
    /\ cur[t] = 5
    /\ res[t].func = "_strided_from_memmap"
    /\ max_nbytes # NoneNbytes
    /\ ArrayOf(cur[t]).nbytes <= max_nbytes
    /\ \E f \in Files : fs[f] = "complete"

\* What frame t itself has registered for its file so far.
OwnRegisters(t) ==
  (IF unlink_on_gc_collect /\ pc[t] \notin {"register_send"} THEN 1 ELSE 0)
  + (IF is_new_memmap[t] /\ pc[t] \notin {"register_send", "register_hold"}
     THEN 1 ELSE 0)

\* C3: with one coordinator thread, all the sends of one live array carry
\* the same basename, and the file is not written again while an earlier
\* send of it is still referenced: when a frame writes the file, the tracker
\* holds (or has been asked to hold) no register but the frame's own, no
\* descriptor of the file is in flight and no worker maps it.
C3_Dedup ==
  /\ \A i \in ArrayIds : Cardinality(sentAs[i]) <= 1
  /\ \A t \in Threads :
       pc[t] \in {"dump", "write"} =>
         /\ registry[basename[t]] + PendingRegisters(basename[t])
              <= OwnRegisters(t)
         /\ inflight[basename[t]] = 0
         /\ wmaps[basename[t]] = 0

\* C4: when the descriptor of a backing file is returned, every register
\* of the file has been issued: one for each send so far (this one
\* included) if unlink_on_gc_collect, and the end-of-batch hold; so a file
\* with a descriptor in flight has had its hold requested.
C4_RegisterBeforeReturn ==
  /\ \A t \in Threads :
       (pc[t] = "return" /\ res[t].func = "load_temporary_memmap") =>
         nreg[basename[t]] >=
           1 + (IF unlink_on_gc_collect THEN nsent[basename[t]] + 1 ELSE 0)
  /\ \A f \in Files : inflight[f] > 0 => nreg[f] >= 1

\* C4 witness: a descriptor of a new file is about to be returned and its
\* two registers are still in the tracker's pipe.
C4_Witness ==
  \E t \in Threads :
    /\ pc[t] = "return"
    /\ res[t].func = "load_temporary_memmap"
    /\ is_new_memmap[t]
    /\ PendingRegisters(basename[t]) >= 2

\* C5 (as claimed): in every batch a file whose descriptor was sent since
\* the last end-of-batch call is held until that call: it stays on disk and
\* the tracker holds, or has been asked to hold, a reference of it.
C5_HeldUntilEndOfBatch ==
  \A f \in sinceUnlink :
    /\ fs[f] # "absent"
    /\ registry[f] + PendingRegisters(f) >= 1

\* Nothing is under way: no call, no request in the pipe, no descriptor in
\* flight, no live mapping, and the end-of-batch call came after the last
\* send.
Quiescent ==
  /\ \A t \in Threads : pc[t] = "idle"
  /\ queue = <<>>
  /\ \A f \in Files : inflight[f] = 0 /\ wmaps[f] = 0
  /\ sinceUnlink = {}

\* C6 (as claimed): when every descriptor sent was decoded, the end-of-batch
\* call has been made, every finalizer has run and the tracker has handled
\* every request, the folder holds no backing file.
C6_CleanupComplete ==
  (Quiescent /\ ~failed) => listdir = {}

\* C7: once n >= 1 reductions of an array have returned the descriptor of
\* its backing file, and no further one is under way, the registers issued
\* for the file are n + 1 with unlink_on_gc_collect and 1 without.
C7_RegisterCount ==
  \A f \in Files :
    (nsent[f] >= 1 /\ \A t \in Threads : pc[t] = "idle") =>
      nreg[f] = IF unlink_on_gc_collect THEN nsent[f] + 1 ELSE 1

\* C7 witness: the same file was sent twice, in two batches.
C7_Witness ==
  \E f \in Files :
    /\ nsent[f] = 2
    /\ batch >= 1
    /\ sinceUnlink = {f}
    /\ \A t \in Threads : pc[t] = "idle"

\* C8 (as claimed): whenever the descriptor of a backing file is returned,
\* the file is not partially written, and if it is there it has the
\* permissions 0600.
C8_AtomicCreation ==
  \A t \in Threads :
    (pc[t] = "return" /\ res[t].func = "load_temporary_memmap") =>
      /\ fs[basename[t]] # "partial"
      /\ fs[basename[t]] # "absent" => fmode[basename[t]] = "0600"

\* C9 (as claimed): two threads that reduce the same array work with the
\* same basename, within a batch one file is written for it, once, and its
\* end-of-batch hold is registered once.
C9_MutualExclusion ==
  /\ \A t, u \in Threads :
       (/\ pc[t] \notin {"idle", "makedirs", "chmod_folder", "get"}
        /\ pc[u] \notin {"idle", "makedirs", "chmod_folder", "get"}
        /\ OnBackingPath(t) /\ OnBackingPath(u)
        /\ cur[t] = cur[u]) => basename[t] = basename[u]
  /\ \A f \in Files : batch = 0 => ndump[f] <= 1
  /\ \A f \in Files :
       nreg[f] <= 1 + (IF unlink_on_gc_collect
                       THEN nsent[f] + Cardinality({t \in Threads :
                              OnBackingPath(t) /\ basename[t] = f})
                       ELSE 0)

\* The array the worker sent back is backed by a np.memmap of a file
\* listed in JOBLIB_MMAPS.
BackedByJoblibMmap(a) ==
  /\ IsMemmap(_get_backing_memmap(a))
  /\ _get_backing_memmap(a).filename \in JOBLIB_MMAPS

\* C10 (as claimed): the backward reducer returns a descriptor for an array
\* backed by a memmap listed in JOBLIB_MMAPS, and the inline pickle for
\* every other array.
C10_BackwardAsClaimed ==
  bres # NoResult =>
    IF BackedByJoblibMmap(bres.array)
    THEN bres.result.func = "_strided_from_memmap"
    ELSE bres.result = Inline

\* C10 (amended): the backward reducer returns a descriptor, of the
\* memmap's file, for an array backed by a np.memmap whose file name is NOT
\* in JOBLIB_MMAPS, and the inline pickle for every other array, the views
\* of joblib's own backing files among them.
C10_Backward ==
  bres # NoResult =>
    LET m == _get_backing_memmap(bres.array) IN
    IF IsMemmap(m) /\ m.filename[1] # CtxFolder
    THEN /\ bres.result.func = "_strided_from_memmap"
         /\ bres.result.filename = m.filename
    ELSE bres.result = Inline

\* C10 witness: the worker sent back a view of a backing file it had mapped,
\* and it went inline.
C10_Witness ==
  /\ bres # NoResult
  /\ bres.array.kind = "ndarray"
  /\ BackedByJoblibMmap(bres.array)
  /\ bres.result = Inline

\* What the rebuilt array holds at idx: the item of the file there, named
\* by its place in the file, or garbage outside the mapped buffer.
Item(idx) ==
  LET p == Address(rebuilt.array, idx) IN
  IF {p, p + itemsize - 1} \subseteq Mapped(reduced.layout)
  THEN p ELSE garbage

\* C11 (as claimed): the array rebuilt from the descriptor of a view has the
\* shape of the view and, at every index, the item the view has there, for
\* contiguous, transposed, strided, offset and negative-stride views alike.
C11_RoundTrip ==
  rebuilt # NoArray =>
    /\ rebuilt.array.shape = view.shape
    /\ \A idx \in Indices(view.shape) : Item(idx) = Address(view, idx)

\* C12 (as claimed): no descriptor carries the mode 'w+', whatever mode the
\* backing memmap was opened with.
C12_NoWPlus ==
  /\ reduced # NoResult => reduced.call.mode # "w+"
  /\ \A t \in Threads : res[t] # NoResult /\ res[t] # Inline =>
       res[t].mode # "w+"

\* C13 (as claimed): whenever a backing file exists in the context folder,
\* the folder has the permissions 0700, wherever the temp root was resolved
\* and whichever operation created the folder.
C13_FolderOwnerOnly ==
  \A f \in Files : fs[f] # "absent" => folder = "0700"

\* The shared memory mount is usable: it exists, os.statvfs reports more
\* than the minimal size, and the folder can be made there.
ShmUsable ==
  /\ shm.exists
  /\ shm.statvfs
  /\ shm.available_nbytes > SYSTEM_SHARED_MEM_FS_MIN_SIZE
  /\ shm.writable

C18_NoFolderAtResolution ==
  [][/\ tpc = "new" => folder' = folder
     /\ (folder = "absent" /\ folder' # "absent") =>
          \E t \in Threads : pc[t] = "makedirs"]_vars

\* C19 (as claimed): a file that was just written is prewarmed exactly when
\* the reducer was constructed with prewarm = True, or with prewarm = "auto"
\* and a folder that is not on the shared memory mount.
C19_PrewarmAuto ==
  [][\A t \in Threads :
       (pc[t] = "chmod" /\ pc'[t] # pc[t]) =>
         (pc'[t] = "prewarm" <=>
            IF prewarm_arg = "auto"
            THEN ~startswith(pool_folder, SYSTEM_SHARED_MEM_FS)
            ELSE prewarm_arg = "True")]_vars

\* C14: two distinct arrays are never given the same basename by one map,
\* value-equal or not, an array that took the identity of a collected one
\* among them; an entry whose weak reference does not point at the array
\* asked for counts as a miss.
C14_NoSharedFile ==
  /\ \A p, q \in handed : p[2] = q[2] => p[1] = q[1]
  /\ \A k \in DOMAIN _data :
       _data[k].ref # Live(k) => get_raises(_data, Live(k))

\* C14 witness: an array took the identity of a collected array whose entry
\* was still in the map (its callback is due), and got another basename.
C14_Witness ==
  \E p, q \in handed :
    /\ p[1][1] = q[1][1]
    /\ p[1][2] < q[1][2]
    /\ p[2] # q[2]
    /\ callbacks[p[1][1]] > 0
    /\ q[1] = Live(q[1][1])

\* C15: with the callbacks run at the destruction, get(a) returns the value
\* of the most recent set(a, v) for a live array a, raises KeyError for an
\* array that was never set, and the map has no entry for a destroyed array.
C15_IdentityKeyed ==
  ~deferred =>
    /\ \A k \in Keys :
         IF latest[k] # 0
         THEN /\ ~get_raises(_data, Live(k))
              /\ get(_data, Live(k)) = latest[k]
         ELSE get_raises(_data, Live(k))
    /\ \A k \in DOMAIN _data : _data[k].ref = Live(k)

\* C15 witness: an array was set twice, after an earlier array of the same
\* identity was set and destroyed.
C15_Witness ==
  /\ ~deferred
  /\ \E k \in Keys :
       /\ lives[k] >= 1
       /\ latest[k] >= 3
       /\ <<Live(k), latest[k] - 1>> \in handed

\* C16: pickling the map comes to a PicklingError and nothing else, and the
\* reducer a worker rebuilds has an empty map and an empty set of
\* filenames, whatever the coordinator's map and set hold.
C16_NotTransferred ==
  /\ pickling \in {"none", "PicklingError"}
  /\ unpickled # NoReducer =>
       /\ unpickled[1].copy._memmaped_arrays = <<>>
       /\ unpickled[1].copy._temporary_memmaped_filenames = {}
       /\ unpickled[1].copy._max_nbytes = unpickled[1].self._max_nbytes

\* C16 witness: the reducer was pickled with an entry in its map and a name
\* in its set, and the map was pickled too.
C16_Witness ==
  /\ unpickled # NoReducer
  /\ unpickled[1].self._memmaped_arrays # <<>>
  /\ unpickled[1].self._temporary_memmaped_filenames # {}
  /\ pickling = "PicklingError"

\* What holds at every step of unlink_file.
UnlinkSteps ==
  /\ attempts <= NUM_RETRIES
  /\ sleeps <= NUM_RETRIES - 1
  /\ sleeps <= failures
  /\ upc = "unlink" => (attempts = failures /\ sleeps = failures)
  /\ upc = "done" => (attempts = failures + 1 /\ sleeps = failures)
  /\ upc = "PermissionError" <=> failures = NUM_RETRIES

\* C20: unlink_file ends; it calls os.unlink at most NUM_RETRIES times and
\* not again after a call that succeeded; it sleeps only after a call that
\* failed and before the next one, at most NUM_RETRIES - 1 times; and it
\* raises PermissionError exactly when NUM_RETRIES calls failed with it.
C20_Retry ==
  /\ []UnlinkSteps
  /\ <>(upc \in Finished)

\* C20 witness: all the calls failed and the error is raised after nine
\* sleeps.
C20_Witness ==
  /\ upc = "PermissionError"
  /\ attempts = NUM_RETRIES
  /\ sleeps = NUM_RETRIES - 1

\* register and maybe_unlink were applied the same number of times: all
\* the requests sent were served, and the cleanup function has returned.
Balanced ==
  /\ registered > 0
  /\ unlinked = registered
  /\ queue = <<>>
  /\ upc \in {"idle"} \cup Finished

\* As claimed in C21: every sequence of requests for a file in which
\* maybe_unlink was applied as many times as register ends with the file
\* absent from disk, and no step deletes the file while its refcount is
\* above 0.
C21_BalancedAbsentAsClaimed ==
  [][/\ Balanced' => ~present'
     /\ (present /\ ~present') => registry[1] = 0]_vars

\* C21: every sequence of requests for a file in which maybe_unlink was
\* applied as many times as register ends with the file absent from disk,
\* or with the file left on disk after unlink_file raised the
\* PermissionError of its last attempt; and no step deletes the file
\* while its refcount is above 0.
C21_BalancedAbsent ==
  [][/\ Balanced' => (~present' \/ upc' = "PermissionError")
     /\ (present /\ ~present') => registry[1] = 0]_vars

\* C21 witness: two registers and two maybe_unlinks were served, and the
\* file was deleted by an attempt that followed a failed one.
C21_Witness ==
  /\ Balanced
  /\ registered = 2
  /\ upc = "done"
  /\ failures > 0
  /\ ~present

\* C22: when writing a new backing file or changing its permissions fails
\* in a forward reduction, the exception reaches the caller with no file
\* left behind, and no forward reduction returns a descriptor of a file
\* that is partially written.
C22_NoPartialFile ==
  \A t \in Threads :
    pc[t] = "return" =>
      /\ res[t] = Raised => fs[basename[t]] = "absent"
      /\ res[t].func = "load_temporary_memmap" => fs[basename[t]] # "partial"

\* C23: a call of register_new_context or set_current_context with a
\* context id that is registered leaves the cached folder of every
\* context as it is and issues no register of a folder and no atexit
\* cleanup.
C23_ReRegisterNoOp ==
  [][(/\ last'.n # last.n
      /\ last'.op \in {"register_new_context", "set_current_context"}
      /\ last'.id \in DOMAIN _cached_temp_folders)
     => /\ _cached_temp_folders' = _cached_temp_folders
        /\ folder_registers' = folder_registers
        /\ atexit' = atexit
        /\ dirs' = dirs]_vars

\* C23 witness: the context was registered at construction, by a call of
\* set_current_context and by a call of register_new_context, and has one
\* cleanup and one register.
C23_Witness ==
  /\ last.op = "register_new_context"
  /\ last.known
  /\ last.n >= 2
  /\ atexit[last.id] = 1
  /\ folder_registers[last.id] = 1

\* Every callback of atexit has run.
Exited == exiting /\ \A c \in Contexts : ran[c] = atexit[c]

\* C24: at exit with no teardown every _cleanup callback returns without
\* an exception; it deletes its folder, with the files in it, and then
\* unregisters it; a callback whose folder is already gone does the same
\* with nothing to delete; and a folder the OS refuses to delete gives a
\* warning and no unregister.
C24_AtExit ==
  /\ ~escaped
  /\ \A c \in Contexts :
       /\ ran[c] = folder_unregisters[c] + warned[c]
       /\ (ran[c] > 0 /\ c \notin stuck) =>
            (dirs[c] = "absent" /\ warned[c] = 0)
       /\ warned[c] > 0 => (c \in stuck /\ dirs[c] # "absent")

\* C24 witness: two callbacks of one context have run, the first deleted
\* a folder that held files; and the folder of another context could not
\* be deleted.
C24_Witness ==
  /\ Exited
  /\ \E c \in Contexts :
       /\ folder_unregisters[c] = 2
       /\ dirs[c] = "absent"
  /\ \E c \in Contexts : warned[c] > 0

\* C28: the current context of a manager is a registered context, and
\* resolve_temp_folder_name returns its cached folder.
C28_CurrentIsRegistered ==
  /\ _current_context_id \in DOMAIN _cached_temp_folders
  /\ last.op = "resolve_temp_folder_name" => last.raised = "None"

\* Records of the reduction channel at a level.
ReductionLines(levelname) ==
  {l \in stderr : l.name = "joblib.reduction" /\ l.levelname = levelname}

\* C25: once an array larger than max_nbytes was memmapped, the records
\* of the reduction channel are: none for verbose <= 49; some at INFO and
\* none at DEBUG for verbose = 51; some at INFO and some at DEBUG for
\* verbose = 100.
C25_VerbosityGated ==
  dumped # {} =>
    /\ verbose <= 49 =>
         (ReductionLines("INFO") = {} /\ ReductionLines("DEBUG") = {})
    /\ verbose = 51 =>
         (ReductionLines("INFO") # {} /\ ReductionLines("DEBUG") = {})
    /\ verbose = 100 =>
         (ReductionLines("INFO") # {} /\ ReductionLines("DEBUG") # {})

\* C26: the file of a descriptor is never mapped with the mode 'w+': a
\* descriptor of mode 'w+' is mapped with 'r+' and one of any other mode
\* with its own mode, whether the descriptor has strides or not.
C26_NeverTruncates ==
  rebuilt # NoArray =>
    /\ rebuilt.mode # "w+"
    /\ reduced.call.mode = "w+" => rebuilt.mode = "r+"
    /\ reduced.call.mode # "w+" => rebuilt.mode = reduced.call.mode

\* C26 witness: a descriptor with strides and the mode 'w+' was decoded.
C26_Witness ==
  /\ rebuilt # NoArray
  /\ reduced.layout.strides # <<>>
  /\ reduced.call.mode = "w+"
  /\ rebuilt.mode = "r+"

\* C27: whenever the callbacks of the weak references run, get(a) returns
\* the value of the most recent set(a, v) for as long as a is alive: the
\* callback of an earlier array that had the identity of a removes no
\* entry stored for a.
C27_NoLateRemoval ==
  \A k \in Keys :
    latest[k] # 0 =>
      /\ ~get_raises(_data, Live(k))
      /\ get(_data, Live(k)) = latest[k]

====
